---- MODULE Spec2Model ----
(***************************************************************************)
(* Warehouse Shipping Optimizer (src/MILP.py).                             *)
(*                                                                         *)
(* The program is a Streamlit script: every user interaction re-runs the   *)
(* whole script top to bottom.  One state of this model is the program     *)
(* after one complete script run: the widget values (tabs 1-3), what the   *)
(* Optimize handler of tab 4 produced in that run, and st.session_state,   *)
(* which is the only thing that survives from one run to the next.         *)
(*                                                                         *)
(* Python floats are held as integers in units of 1/Unit (fixed point);    *)
(* Python ints are plain integers.  int() and float() are the conversions  *)
(* between the two.                                                        *)
(***************************************************************************)
EXTENDS Integers, Sequences, FiniteSets, TLC

\* ------------------------------------------------------------------ bounds
MaxQty == 2
Unit == 2
MaxEdits == 2

\* ------------------------------------------------------- program constants
MinWarehouses == 1
MinCustomers == 1
MinCapacity == 0
MinDemand == 0
DefaultCost == 4

\* Default widget values f"W{i+1}" and f"C{i+1}"; also the names a user types.
DefaultWName == <<"W1", "W2">>
DefaultCName == <<"C1", "C2">>

VARIABLES
    wname,          \* text_input values, keys wname_0 .. wname_{n-1}
    wcap,           \* number_input values, keys wcap_i
    cname,          \* text_input values, keys cname_i
    cdem,           \* number_input values, keys cdem_i
    cost_editor,    \* data_editor state: the cells and the deleted row positions
    fault,          \* exception that escaped the script run ("none" if none)
    button,         \* this script run was triggered by the Optimize button
    raised,         \* exception raised inside the try block of tab 4
    status,         \* pulp.LpStatus[prob.status], "" while no solve returned
    x,              \* solver value of each decision variable x[w][c]
    result_data,    \* the list of shipment records built at lines 94-105
    total_cost,     \* <<pulp.value(prob.objective)>>, <<>> while not computed
    display,        \* the elements tab 4 rendered in this run, in order
    message,        \* text of st.error
    session_state,  \* st.session_state
    edits           \* number of widget edits made in this session

vars == <<wname, wcap, cname, cdem, cost_editor, fault, button, raised, status,
          x, result_data, total_cost, display, message, session_state, edits>>

inputs == <<wname, wcap, cname, cdem, cost_editor>>

\* ----------------------------------------------------------------- helpers
Range(s) == {s[i] : i \in DOMAIN s}

RECURSIVE SumSeq(_)
SumSeq(s) == IF s = <<>> THEN 0 ELSE Head(s) + SumSeq(Tail(s))

\* float(n) of an int n, and int(f) of a float f (truncation toward zero).
ToFloat(n) == n * Unit

IntOf(f) == IF f >= 0 THEN f \div Unit ELSE -((-f) \div Unit)

\* Product of two floats.
FMul(a, b) == (a * b) \div Unit

IsIntegral(f) == f % Unit = 0

\* ------------------------------------------------- tabs 1 and 2: the inputs
\* warehouses.append(w_name) for each i: the list of names in input order.
warehouses == wname

customers == cname

\* capacity[w_name] = w_cap in a loop: a later duplicate name overwrites.
DictOf(names, vals) ==
    [k \in Range(names) |->
        vals[CHOOSE i \in DOMAIN names :
                /\ names[i] = k
                /\ \A j \in DOMAIN names : names[j] = k => j <= i]]

capacity == DictOf(wname, wcap)

demand == DictOf(cname, cdem)

\* ------------------------------------------------ tab 3: the cost table
\* edited_df: cost_df (index=warehouses, columns=customers) with the editor's
\* state applied; num_rows="dynamic" lets the user delete rows.
RowsOf(w) == {i \in DOMAIN warehouses :
                 warehouses[i] = w /\ i \notin cost_editor.deleted_rows}

ColsOf(c) == {j \in DOMAIN customers : customers[j] = c}

\* float(edited_df.loc[w, c]): a missing label raises KeyError; a label that
\* matches several rows or columns yields a Series/DataFrame and float() of
\* it raises TypeError.
LocFault(w, c) ==
    IF RowsOf(w) = {} \/ ColsOf(c) = {} THEN "KeyError"
    ELSE IF Cardinality(RowsOf(w)) > 1 \/ Cardinality(ColsOf(c)) > 1
         THEN "TypeError"
         ELSE "none"

Loc(w, c) ==
    cost_editor.cells[<<CHOOSE i \in RowsOf(w) : TRUE,
                        CHOOSE j \in ColsOf(c) : TRUE>>]

\* The (w, c) pairs in the order "for w in warehouses for c in customers".
NumPairs == Len(warehouses) * Len(customers)

PairAt(k) == <<warehouses[((k - 1) \div Len(customers)) + 1],
               customers[((k - 1) % Len(customers)) + 1]>>

PairSeq == [k \in 1..NumPairs |-> PairAt(k)]

\* Line 64, which is outside any try: the first pair whose lookup fails
\* aborts the script run with that exception.
CostsFault ==
    IF \A k \in 1..NumPairs : LocFault(PairAt(k)[1], PairAt(k)[2]) = "none"
    THEN "none"
    ELSE LET k == CHOOSE k \in 1..NumPairs :
                     /\ LocFault(PairAt(k)[1], PairAt(k)[2]) # "none"
                     /\ \A m \in 1..(k - 1) :
                            LocFault(PairAt(m)[1], PairAt(m)[2]) = "none"
         IN LocFault(PairAt(k)[1], PairAt(k)[2])

costs == [p \in Range(PairSeq) |-> Loc(p[1], p[2])]

\* ------------------------------------------- tab 4: building the MILP model
\* x = LpVariable.dicts("x", (warehouses, customers), lowBound=0,
\* cat="Integer"): one variable per key pair; it is identified by its key.
\* Line 79: the objective, one term per (w, c) in loop order.
objective ==
    [k \in 1..NumPairs |-> [coef |-> costs[PairAt(k)], var |-> PairAt(k)]]

\* Mutant: the supply constraints written with == instead of <=.
SupplyConstraintsExact ==
    [i \in 1..Len(warehouses) |->
        [vars  |-> [j \in 1..Len(customers) |-> <<warehouses[i], customers[j]>>],
         sense |-> "==",
         rhs   |-> capacity[warehouses[i]]]]

\* Lines 82-83: one supply constraint per warehouse.
SupplyConstraints ==
    [i \in 1..Len(warehouses) |->
        [vars  |-> [j \in 1..Len(customers) |-> <<warehouses[i], customers[j]>>],
         sense |-> "<=",
         rhs   |-> capacity[warehouses[i]]]]

\* Mutant: the demand constraints written with <= instead of ==.
DemandConstraintsAtMost ==
    [j \in 1..Len(customers) |->
        [vars  |-> [i \in 1..Len(warehouses) |-> <<warehouses[i], customers[j]>>],
         sense |-> "<=",
         rhs   |-> demand[customers[j]]]]

\* Lines 84-85: one demand constraint per customer.
DemandConstraints ==
    [j \in 1..Len(customers) |->
        [vars  |-> [i \in 1..Len(warehouses) |-> <<warehouses[i], customers[j]>>],
         sense |-> "==",
         rhs   |-> demand[customers[j]]]]

\* Line 75 and the "prob +=" statements.
LpProblem(sense) ==
    [sense       |-> sense,
     objective   |-> objective,
     constraints |-> SupplyConstraints \o DemandConstraints]

\* Mutant: the problem created with pulp.LpMaximize.
probMaximize == LpProblem("Maximize")

prob == LpProblem("Minimize")

\* ------------------------------------------------ tab 4: the solver (CBC)
\* prob.solve(solver) is the external branch-and-bound solver, modelled by its
\* contract on the problem it is handed: every variable is a non-negative
\* integer, all constraints hold, and the objective is minimal; which of
\* several optima it returns is its choice.
LpVariables(p) ==
    {p.objective[k].var : k \in DOMAIN p.objective}
        \cup UNION {Range(p.constraints[k].vars) : k \in DOMAIN p.constraints}

\* The values an integer variable with lowBound=0 can take in a feasible
\* point: all variables are non-negative and enter with coefficient 1, so a
\* "<=" or "==" constraint bounds each of its variables by its right-hand
\* side.  MaxQty, which no capacity or demand of the model exceeds, stands in
\* for a variable no constraint bounds.
VarBound(p, v) ==
    LET B == {p.constraints[k].rhs : k \in {m \in DOMAIN p.constraints :
                                              v \in Range(p.constraints[m].vars)}}
    IN  IF B = {} THEN MaxQty
        ELSE IntOf(CHOOSE b \in B : \A c \in B : b <= c)

VarValues(p, v) == {ToFloat(n) : n \in 0..VarBound(p, v)}

RECURSIVE AssignmentsOver(_, _)
AssignmentsOver(p, V) ==
    IF V = {} THEN {<<>>}
    ELSE LET v == CHOOSE u \in V : TRUE
         IN  {(v :> n) @@ a : n \in VarValues(p, v),
                              a \in AssignmentsOver(p, V \ {v})}

Assignments(p) == AssignmentsOver(p, LpVariables(p))

Lhs(con, a) == SumSeq([j \in DOMAIN con.vars |-> a[con.vars[j]]])

Satisfies(con, a) ==
    IF con.sense = "<=" THEN Lhs(con, a) <= con.rhs ELSE Lhs(con, a) = con.rhs

ObjectiveValue(p, a) ==
    SumSeq([k \in DOMAIN p.objective |->
               FMul(p.objective[k].coef, a[p.objective[k].var])])

FeasibleSet(p) ==
    {a \in Assignments(p) :
        \A k \in DOMAIN p.constraints : Satisfies(p.constraints[k], a)}

Better(p, u, v) ==
    IF p.sense = "Minimize" THEN u <= v ELSE u >= v

OptimalSet(p) ==
    LET F == FeasibleSet(p)
        V == {ObjectiveValue(p, a) : a \in F}
        best == CHOOSE u \in V : \A v \in V : Better(p, u, v)
    IN  {a \in F : ObjectiveValue(p, a) = best}

\* pulp.LpStatus[prob.status] after the solve.
LpStatus(p) == IF FeasibleSet(p) = {} THEN "Infeasible" ELSE "Optimal"

\* Failures the solve can raise (CBC binary missing or crashing).  The
\* statuses Unbounded and Not Solved do not arise: every variable is bounded
\* below by 0 and above by a supply constraint.
SolverFailures == {"PulpSolverError"}

\* --------------------------------------- tab 4: interpreting the solution
\* Lines 97-105: the record of one (w, c) pair.
Record(p, a) ==
    [Warehouse     |-> p[1],
     Customer      |-> p[2],
     Units_Shipped |-> IntOf(a[p]),
     Unit_Cost     |-> costs[p],
     Total_Cost    |-> IntOf(a[p]) * costs[p]]

\* Mutant: the filter written "shipped > 1".
ShippedMoreThanOne(r) == r.Units_Shipped > 1

Shipped(r) == r.Units_Shipped > 0

\* Mutant: the two loops nested the other way round.
ResultDataCustomerMajor(a) ==
    SelectSeq([k \in 1..NumPairs |->
                  Record(<<warehouses[((k - 1) % Len(warehouses)) + 1],
                           customers[((k - 1) \div Len(warehouses)) + 1]>>, a)],
              Shipped)

\* Lines 94-105: warehouse-major loop, keeping the pairs with shipped > 0.
ResultData(a) ==
    SelectSeq([k \in 1..NumPairs |-> Record(PairAt(k), a)], Shipped)

\* Line 117: st.session_state['result_df'] = result_df.
SaveResult(ss, df) ==
    [k \in DOMAIN ss \cup {"result_df"} |->
        IF k = "result_df" THEN df ELSE ss[k]]

\* Line 122: st.error(f"Error: {str(e)}").
ErrorMessage(e) == "Error: " \o e

\* ------------------------------------------------ tab 5: the visualization
\* Lines 127-128: the plan the charts are drawn from, <<>> when the branch
\* is not taken.  Nothing is drawn in a run the script did not finish.
tab5_df ==
    IF /\ fault = "none"
       /\ "result_df" \in DOMAIN session_state
       /\ session_state["result_df"] # <<>>
    THEN session_state["result_df"]
    ELSE <<>>

\* ---------------------------------------------------------- script runs
\* What a script run leaves of tab 4 when the handler body does not run.
NoRun ==
    /\ raised' = "none"
    /\ status' = ""
    /\ x' = <<>>
    /\ result_data' = <<>>
    /\ total_cost' = <<>>
    /\ display' = <<>>
    /\ message' = ""

\* The Optimize button is clicked but line 64 raises before tab 4 is reached.
OptimizeFault ==
    /\ CostsFault # "none"
    /\ fault' = CostsFault
    /\ button' = TRUE
    /\ NoRun
    /\ UNCHANGED <<inputs, session_state, edits>>

\* Lines 72-117: the solve returns Optimal.
OptimizeOptimal ==
    /\ CostsFault = "none"
    /\ LpStatus(prob) = "Optimal"
    /\ \E a \in OptimalSet(prob) :
        /\ x' = a
        /\ result_data' = ResultData(a)
        /\ total_cost' = <<ObjectiveValue(prob, a)>>
        /\ session_state' = SaveResult(session_state, ResultData(a))
    /\ fault' = "none"
    /\ button' = TRUE
    /\ raised' = "none"
    /\ status' = "Optimal"
    /\ display' = <<"success", "dataframe", "metric">>
    /\ message' = ""
    /\ UNCHANGED <<inputs, edits>>

\* Lines 72-93 and 119-120: the solve returns another status.
OptimizeNotOptimal ==
    /\ CostsFault = "none"
    /\ LpStatus(prob) # "Optimal"
    /\ fault' = "none"
    /\ button' = TRUE
    /\ raised' = "none"
    /\ status' = LpStatus(prob)
    /\ x' = <<>>
    /\ result_data' = <<>>
    /\ total_cost' = <<>>
    /\ display' = <<"success", "warning">>
    /\ message' = ""
    /\ UNCHANGED <<inputs, session_state, edits>>

\* Mutant: no except branch; the exception escapes the script run.
HandleExceptionEscapes(e) ==
    /\ fault' = e
    /\ raised' = e
    /\ display' = <<>>
    /\ message' = ""

\* Lines 121-122: what the except branch does with an exception e.
HandleException(e) ==
    /\ fault' = "none"
    /\ raised' = e
    /\ display' = <<"error">>
    /\ message' = ErrorMessage(e)

\* Lines 72-89 and 121-122: the solve raises.
OptimizeError ==
    /\ CostsFault = "none"
    /\ \E e \in SolverFailures : HandleException(e)
    /\ button' = TRUE
    /\ status' = ""
    /\ x' = <<>>
    /\ result_data' = <<>>
    /\ total_cost' = <<>>
    /\ UNCHANGED <<inputs, session_state, edits>>

\* The Optimize click of a script run that reaches tab 4.
Optimize ==
    \/ OptimizeOptimal
    \/ OptimizeNotOptimal
    \/ OptimizeError

\* A widget edit re-runs the script without the button: tabs 1-3 are
\* recomputed from the new widget values, tab 4 renders nothing.
Rerun ==
    /\ edits < MaxEdits
    /\ edits' = edits + 1
    /\ fault' = CostsFault'
    /\ button' = FALSE
    /\ NoRun
    /\ UNCHANGED session_state

\* What the number_input widgets return: ints from min_value up (MaxQty
\* bounds what the user types).
UICapacities == {ToFloat(q) : q \in MinCapacity..MaxQty}

UIDemands == {ToFloat(q) : q \in MinDemand..MaxQty}

CostValues == {ToFloat(2), ToFloat(DefaultCost)}

SetCapacity ==
    /\ \E i \in DOMAIN wcap, q \in UICapacities :
        /\ q # wcap[i]
        /\ wcap' = [wcap EXCEPT ![i] = q]
    /\ UNCHANGED <<wname, cname, cdem, cost_editor>>
    /\ Rerun

SetDemand ==
    /\ \E j \in DOMAIN cdem, q \in UIDemands :
        /\ q # cdem[j]
        /\ cdem' = [cdem EXCEPT ![j] = q]
    /\ UNCHANGED <<wname, wcap, cname, cost_editor>>
    /\ Rerun

RenameWarehouse ==
    /\ \E i \in DOMAIN wname, n \in Range(DefaultWName) :
        /\ n # wname[i]
        /\ wname' = [wname EXCEPT ![i] = n]
    /\ UNCHANGED <<wcap, cname, cdem, cost_editor>>
    /\ Rerun

RenameCustomer ==
    /\ \E j \in DOMAIN cname, n \in Range(DefaultCName) :
        /\ n # cname[j]
        /\ cname' = [cname EXCEPT ![j] = n]
    /\ UNCHANGED <<wname, wcap, cdem, cost_editor>>
    /\ Rerun

DeleteRow ==
    /\ \E i \in DOMAIN wname :
        /\ i \notin cost_editor.deleted_rows
        /\ cost_editor' = [cost_editor EXCEPT !.deleted_rows = @ \cup {i}]
    /\ UNCHANGED <<wname, wcap, cname, cdem>>
    /\ Rerun

SetCost ==
    /\ \E c \in DOMAIN cost_editor.cells, v \in CostValues :
        /\ v # cost_editor.cells[c]
        /\ cost_editor' = [cost_editor EXCEPT !.cells[c] = v]
    /\ UNCHANGED <<wname, wcap, cname, cdem>>
    /\ Rerun

Edit ==
    \/ SetCapacity
    \/ SetDemand
    \/ RenameWarehouse
    \/ RenameCustomer
    \/ SetCost
    \/ DeleteRow

\* ------------------------------------------------------- specifications
\* The first script run of a session: nothing clicked, session_state empty.
FirstRun ==
    /\ fault = CostsFault
    /\ button = FALSE
    /\ raised = "none"
    /\ status = ""
    /\ x = <<>>
    /\ result_data = <<>>
    /\ total_cost = <<>>
    /\ display = <<>>
    /\ message = ""
    /\ session_state = <<>>
    /\ edits = 0

Injective(s) == \A i, j \in DOMAIN s : s[i] = s[j] => i = j

\* A session in which the user has typed valid inputs (distinct names, any
\* capacities, demands and costs, no row deleted) and then only clicks
\* Optimize.
Init ==
    /\ \E nw \in MinWarehouses..Len(DefaultWName),
          nc \in MinCustomers..Len(DefaultCName) :
        /\ wname \in {s \in [1..nw -> Range(DefaultWName)] : Injective(s)}
        /\ wcap \in [1..nw -> UICapacities]
        /\ cname \in {s \in [1..nc -> Range(DefaultCName)] : Injective(s)}
        /\ cdem \in [1..nc -> UIDemands]
        /\ cost_editor \in [cells : [(1..nw) \X (1..nc) -> CostValues],
                            deleted_rows : {{}}]
    /\ FirstRun

Next == Optimize

Spec == Init /\ [][Next]_vars

\* A session that starts from the default names and the default cost table
\* and in which the user edits widgets between runs.
InitSession ==
    /\ wname = DefaultWName
    /\ wcap = [i \in DOMAIN DefaultWName |-> ToFloat(MaxQty)]
    /\ cname = DefaultCName
    /\ cdem = [j \in DOMAIN DefaultCName |-> ToFloat(MaxQty - 1)]
    /\ cost_editor = [cells |-> [c \in (DOMAIN DefaultWName) \X (DOMAIN DefaultCName)
                                    |-> ToFloat(DefaultCost)],
                      deleted_rows |-> {}]
    /\ FirstRun

NextSession == Optimize \/ OptimizeFault \/ Edit

SpecSession == InitSession /\ [][NextSession]_vars

\* The engine handed any instance of the data model: ordered lists of
\* distinct identifiers, possibly empty, with real capacities and demands
\* (multiples of 1/Unit up to MaxQty) and a complete cost table.
Quantities == 0..ToFloat(MaxQty)

InitEngine ==
    /\ \E nw \in 0..Len(DefaultWName), nc \in 0..Len(DefaultCName) :
        /\ wname = SubSeq(DefaultWName, 1, nw)
        /\ wcap \in [1..nw -> Quantities]
        /\ cname = SubSeq(DefaultCName, 1, nc)
        /\ cdem \in [1..nc -> Quantities]
        /\ cost_editor = [cells |-> [c \in (1..nw) \X (1..nc) |-> ToFloat(DefaultCost)],
                          deleted_rows |-> {}]
    /\ FirstRun

SpecEngine == InitEngine /\ [][Next]_vars

\* ================================================================ claims
\* The handler body of tab 4 ran in this script run.
Ran == button /\ fault = "none"

UniqueIds == Injective(warehouses) /\ Injective(customers)

TotalCapacity == SumSeq([i \in DOMAIN warehouses |-> capacity[warehouses[i]]])

TotalDemand == SumSeq([j \in DOMAIN customers |-> demand[customers[j]]])

\* Units Shipped summed over the records of one warehouse / one customer.
UnitsFrom(w) ==
    SumSeq([k \in DOMAIN result_data |->
               IF result_data[k].Warehouse = w
               THEN result_data[k].Units_Shipped ELSE 0])

UnitsInto(c) ==
    SumSeq([k \in DOMAIN result_data |->
               IF result_data[k].Customer = c
               THEN result_data[k].Units_Shipped ELSE 0])

\* C1: after an Optimal run on unique identifiers the plan ships from each
\* warehouse at most its capacity and into each customer exactly its demand.
C1_PlanMeetsSupplyAndDemand ==
    (status = "Optimal" /\ UniqueIds) =>
        /\ \A w \in Range(warehouses) : ToFloat(UnitsFrom(w)) <= capacity[w]
        /\ \A c \in Range(customers) : ToFloat(UnitsInto(c)) = demand[c]

C1_Witness ==
    /\ status = "Optimal"
    /\ UniqueIds
    /\ Len(result_data) >= 3
    /\ \E w \in Range(warehouses) : ToFloat(UnitsFrom(w)) < capacity[w]
    /\ \E w \in Range(warehouses) :
          UnitsFrom(w) > 0 /\ ToFloat(UnitsFrom(w)) = capacity[w]

\* The shipment plans of the claim: a non-negative integer per (w, c) pair.
\* In a plan that meets the constraints no entry exceeds the warehouse's
\* capacity or the customer's demand, so only those are listed.
RECURSIVE PlansOver(_)
PlansOver(P) ==
    IF P = {} THEN {<<>>}
    ELSE LET q == CHOOSE u \in P : TRUE
             top == IF capacity[q[1]] <= demand[q[2]]
                    THEN capacity[q[1]] ELSE demand[q[2]]
         IN  {(q :> ToFloat(n)) @@ y : n \in 0..(top \div Unit),
                                      y \in PlansOver(P \ {q})}

PlanFeasible(y) ==
    /\ \A i \in DOMAIN warehouses :
          SumSeq([j \in DOMAIN customers |-> y[<<warehouses[i], customers[j]>>]])
              <= capacity[warehouses[i]]
    /\ \A j \in DOMAIN customers :
          SumSeq([i \in DOMAIN warehouses |-> y[<<warehouses[i], customers[j]>>]])
              = demand[customers[j]]

PlanCost(y) ==
    SumSeq([i \in DOMAIN warehouses |->
        SumSeq([j \in DOMAIN customers |->
            FMul(costs[<<warehouses[i], customers[j]>>],
                 y[<<warehouses[i], customers[j]>>])])])

FeasiblePlans == {y \in PlansOver(Range(PairSeq)) : PlanFeasible(y)}

\* C2: after an Optimal run the reported total cost is the cost of a plan
\* that meets every supply and demand constraint, and no such plan is cheaper.
C2_TotalCostIsMinimum ==
    status = "Optimal" =>
        /\ \E y \in FeasiblePlans : total_cost = <<PlanCost(y)>>
        /\ \A y \in FeasiblePlans : total_cost[1] <= PlanCost(y)

C2_Witness ==
    /\ status = "Optimal"
    /\ Len(warehouses) = 2
    /\ total_cost[1] > 0
    /\ \E y \in FeasiblePlans : PlanCost(y) > total_cost[1]
    /\ \E r \in Range(result_data) :
          \E w \in Range(warehouses) :
              costs[<<w, r.Customer>>] > r.Unit_Cost

\* C3: a run on an instance whose total capacity is below its total demand
\* reports no status but Infeasible, builds no record and no total cost,
\* renders no plan, and leaves st.session_state as it was.
C3_ShortCapacityIsInfeasible ==
    /\ []((Ran /\ TotalCapacity < TotalDemand) =>
            /\ raised = "none" => status = "Infeasible"
            /\ status \in {"", "Infeasible"}
            /\ x = <<>>
            /\ result_data = <<>>
            /\ total_cost = <<>>
            /\ "dataframe" \notin Range(display))
    /\ [][(button' /\ TotalCapacity' < TotalDemand')
            => session_state' = session_state]_vars

C3_Witness ==
    /\ Ran
    /\ TotalCapacity < TotalDemand
    /\ TotalCapacity > 0
    /\ status = "Infeasible"
    /\ display = <<"success", "warning">>

AllIntegral ==
    /\ \A w \in Range(warehouses) : IsIntegral(capacity[w])
    /\ \A c \in Range(customers) : IsIntegral(demand[c])

C5_VisualizationShowsLatestRun ==
    Ran => tab5_df = result_data

\* C6: after an Optimal run the reported total cost equals the sum over the
\* records of Units Shipped * Unit Cost, which is the sum of their line costs.
C6_TotalCostIsSumOfRecords ==
    status = "Optimal" =>
        /\ total_cost = <<SumSeq([k \in DOMAIN result_data |->
                result_data[k].Units_Shipped * result_data[k].Unit_Cost])>>
        /\ total_cost = <<SumSeq([k \in DOMAIN result_data |->
                result_data[k].Total_Cost])>>

C6_Witness ==
    /\ status = "Optimal"
    /\ \E k, m \in DOMAIN result_data :
          /\ result_data[k].Unit_Cost # result_data[m].Unit_Cost
          /\ result_data[k].Units_Shipped # result_data[m].Units_Shipped

EmptyInput == warehouses = <<>> \/ customers = <<>>

NoDemand == \A c \in Range(customers) : demand[c] = 0

OptimalEmptyPlan ==
    status = "Optimal" /\ result_data = <<>> /\ total_cost = <<0>>

C8_FailureBecomesErrorOutcome ==
    /\ [](raised # "none" =>
            /\ fault = "none"
            /\ display = <<"error">>
            /\ Len(message) > Len("Error: ")
            /\ status = ""
            /\ result_data = <<>>
            /\ total_cost = <<>>)
    /\ [][raised' # "none" => session_state' = session_state]_vars

C8_Witness ==
    /\ raised \in SolverFailures
    /\ button
    /\ TotalCapacity >= TotalDemand
    /\ "result_df" \in DOMAIN session_state

MissingCostEntry ==
    \E k \in 1..NumPairs : RowsOf(PairAt(k)[1]) = {}

\* C9: an Optimize click on an input with a duplicate identifier or a
\* missing cost entry is reported as an error by the run, which finishes
\* without an escaping exception, without a status and without a plan.
C9_BadInputIsReported ==
    (button /\ (~UniqueIds \/ MissingCostEntry)) =>
        /\ fault = "none"
        /\ display = <<"error">>
        /\ status = ""
        /\ result_data = <<>>

PosW(w) == CHOOSE i \in DOMAIN warehouses : warehouses[i] = w

PosC(c) == CHOOSE j \in DOMAIN customers : customers[j] = c

RecordsOf(w, c) ==
    {k \in DOMAIN result_data :
        result_data[k].Warehouse = w /\ result_data[k].Customer = c}

\* C10: after an Optimal run on unique identifiers the plan has exactly one
\* record per pair with positive flow and none for the others, in
\* warehouse-major input order, each with line cost = units * unit cost.
C10_OneRecordPerPositiveFlow ==
    (status = "Optimal" /\ UniqueIds) =>
        /\ \A w \in Range(warehouses), c \in Range(customers) :
              Cardinality(RecordsOf(w, c)) = IF x[<<w, c>>] > 0 THEN 1 ELSE 0
        /\ \A k \in DOMAIN result_data :
              LET r == result_data[k] IN
              /\ r.Warehouse \in Range(warehouses)
              /\ r.Customer \in Range(customers)
              /\ ToFloat(r.Units_Shipped) = x[<<r.Warehouse, r.Customer>>]
              /\ r.Unit_Cost = costs[<<r.Warehouse, r.Customer>>]
              /\ r.Total_Cost = r.Units_Shipped * r.Unit_Cost
        /\ \A k, m \in DOMAIN result_data :
              k < m =>
                  \/ PosW(result_data[k].Warehouse) < PosW(result_data[m].Warehouse)
                  \/ /\ result_data[k].Warehouse = result_data[m].Warehouse
                     /\ PosC(result_data[k].Customer) < PosC(result_data[m].Customer)

C10_Witness ==
    /\ status = "Optimal"
    /\ warehouses = <<"W2", "W1">>
    /\ Len(result_data) = 3
    /\ \E p \in Range(PairSeq) : x[p] = 0

====
